---------------------------- MODULE Spec2Model ----------------------------
(***************************************************************************)
(* VimFolio (src/build.py): a build step turns config.yaml and the         *)
(* Markdown files under content/ into one HTML page, and the JavaScript    *)
(* embedded in that page (src/build.py lines 397-685) drives a small       *)
(* modal UI: views, a per-view cursor, a command line and a theme picker.  *)
(*                                                                         *)
(* The model has two layers.  The build operators compute the embedded     *)
(* data (mainViewData, blogsListData, ...) from a configuration drawn in   *)
(* Init.  The runtime is a state machine with one action per DOM event     *)
(* handler; every handler is modelled whole, with the functions it calls   *)
(* (switchView, populateView, setActiveLine, openThemePopup, ...) as       *)
(* operators on a record of the runtime's variables.                       *)
(*                                                                         *)
(* Conventions.  Indices are 0-based as in the JavaScript; element i of a  *)
(* JavaScript array is element i+1 of the TLA+ sequence.                   *)
(***************************************************************************)
EXTENDS Integers, Sequences, FiniteSets, TLC

(***************************************************************************)
(* Bounds of the model.                                                    *)
(***************************************************************************)
\* most rendered lines in the body of one Markdown file
MaxBodyLines == 1
\* most entries in socials_links
MaxSocialLinks == 1
\* longest themes list drawn in Init
MaxThemes == 3
\* a run of "down" keys is counted up to this many keys beyond a view's length
DownsBeyond == 5
\* a run of Escape keys is counted up to this many keys
EscapesCounted == 4

(***************************************************************************)
(* Values.                                                                 *)
(***************************************************************************)
\* JavaScript undefined / a key absent from a YAML mapping.  Assigning
\* undefined to element.dataset.x stores the string "undefined".
NoValue == "undefined"

Min(a, b) == IF a < b THEN a ELSE b
Max(a, b) == IF a > b THEN a ELSE b

\* src/build.py:23
SPECIAL_VIEWS == {"blogs-list-view", "blog-content-view", "socials-view"}

\* the views whose lines are menu entries (populateView, isListViewItem)
ListViews == {"main-view", "blogs-list-view"}

(***************************************************************************)
(* State.                                                                  *)
(***************************************************************************)
VARIABLES
    \* the build: what build_site reads (the configuration file, the content
    \* files, whether the output can be written), the phase it is in, the exit
    \* status of the process, and the output file
    input, pc, exitStatus, outputFile,
    \* the data embedded in the page (src/build.py:734-741) and its containers
    mainViewData, blogsListData, blogContentData, contentViewData,
    socialsViewData, themes, defaultTheme, views,
    \* the runtime's variables (src/build.py:399-410)
    currentViewId, previousViewId, isCommandMode, commandInput,
    isThemePopupActive, themePopupItems, currentThemePopupIndex,
    appliedThemeClassName, viewStates,
    \* the DOM: the view containers carrying class "active", document.body's
    \* className, and whether window.close() ended the session
    activeViews, bodyClassName, windowClosed,
    \* history: the last event a handler acted on
    lastEvent

payload == <<mainViewData, blogsListData, blogContentData, contentViewData,
             socialsViewData, themes, defaultTheme, views>>

runtime == <<currentViewId, previousViewId, isCommandMode, commandInput,
             isThemePopupActive, themePopupItems, currentThemePopupIndex,
             appliedThemeClassName, viewStates, activeViews, bodyClassName,
             windowClosed>>

build == <<input, pc, exitStatus, outputFile>>

vars == <<build, payload, runtime, lastEvent>>


(***************************************************************************)
(* Strings as Python sees them.  The model's file names, ids and titles    *)
(* are looked up in one table of character codes, so that slicing,         *)
(* sorting and title-casing are computed on the characters.                *)
(***************************************************************************)
Codes(str) ==
    CASE str = ""     -> <<>>
      [] str = ".md"  -> <<46, 109, 100>>
      [] str = "a.md" -> <<97, 46, 109, 100>>
      [] str = "b.md" -> <<98, 46, 109, 100>>
      [] str = "a-b.md" -> <<97, 45, 98, 46, 109, 100>>
      [] str = "b.txt" -> <<98, 46, 116, 120, 116>>
      [] str = "a"    -> <<97>>
      [] str = "b"    -> <<98>>
      [] str = "a-b"  -> <<97, 45, 98>>
      [] str = "A"    -> <<65>>
      [] str = "B"    -> <<66>>
      [] str = "A B"  -> <<65, 32, 66>>
      [] str = "about.md"  -> <<97, 98, 111, 117, 116, 46, 109, 100>>
      [] str = "about.txt" -> <<97, 98, 111, 117, 116, 46, 116, 120, 116>>
      [] str = "x.md" -> <<120, 46, 109, 100>>
      [] str = "2024-01-01-a.md" ->
             <<50, 48, 50, 52, 45, 48, 49, 45, 48, 49, 45, 97, 46, 109, 100>>
      [] str = "2023-12-31-b.md" ->
             <<50, 48, 50, 51, 45, 49, 50, 45, 51, 49, 45, 98, 46, 109, 100>>
      [] str = "2024-06-01-c.md" ->
             <<50, 48, 50, 52, 45, 48, 54, 45, 48, 49, 45, 99, 46, 109, 100>>
      [] str = "2024-01-01-a" -> <<50, 48, 50, 52, 45, 48, 49, 45, 48, 49, 45, 97>>
      [] str = "2023-12-31-b" -> <<50, 48, 50, 51, 45, 49, 50, 45, 51, 49, 45, 98>>
      [] str = "2024-06-01-c" -> <<50, 48, 50, 52, 45, 48, 54, 45, 48, 49, 45, 99>>
      [] str = "2024 01 01 A" -> <<50, 48, 50, 52, 32, 48, 49, 32, 48, 49, 32, 65>>
      [] str = "2023 12 31 B" -> <<50, 48, 50, 51, 32, 49, 50, 32, 51, 49, 32, 66>>
      [] str = "2024 06 01 C" -> <<50, 48, 50, 52, 32, 48, 54, 32, 48, 49, 32, 67>>

KnownStrings ==
    {"", ".md", "a.md", "b.md", "a-b.md", "b.txt", "a", "b", "a-b", "A", "B",
     "A B", "about.md", "about.txt", "x.md",
     "2024-01-01-a.md", "2023-12-31-b.md", "2024-06-01-c.md",
     "2024-01-01-a", "2023-12-31-b", "2024-06-01-c",
     "2024 01 01 A", "2023 12 31 B", "2024 06 01 C"}

Str(codes) == CHOOSE str \in KnownStrings : Codes(str) = codes

\* str.endswith(suffix)
endswith(str, suffix) ==
    LET c == Codes(str)
        x == Codes(suffix)
    IN  /\ Len(c) >= Len(x)
        /\ SubSeq(c, Len(c) - Len(x) + 1, Len(c)) = x

\* Python's order on str: lexicographic on the code points
RECURSIVE LexLess(_, _)
LexLess(c, d) ==
    IF d = <<>> THEN FALSE
    ELSE IF c = <<>> THEN TRUE
    ELSE IF c[1] # d[1] THEN c[1] < d[1]
    ELSE LexLess(Tail(c), Tail(d))

\* sorted(names, reverse=True)
RECURSIVE SortedReverse(_)
SortedReverse(names) ==
    IF names = {} THEN <<>>
    ELSE LET top == CHOOSE n \in names :
                        \A m \in names \ {n} : LexLess(Codes(m), Codes(n))
         IN  <<top>> \o SortedReverse(names \ {top})

\* str.replace('-', ' ').title() on the code points
IsLower(ch) == ch >= 97 /\ ch <= 122
IsUpper(ch) == ch >= 65 /\ ch <= 90
TitleCased(c) ==
    LET spaced == [i \in 1..Len(c) |-> IF c[i] = 45 THEN 32 ELSE c[i]]
        startsWord(i) == i = 1 \/ ~(IsLower(spaced[i-1]) \/ IsUpper(spaced[i-1]))
    IN  [i \in 1..Len(c) |->
            IF startsWord(i) /\ IsLower(spaced[i]) THEN spaced[i] - 32
            ELSE IF ~startsWord(i) /\ IsUpper(spaced[i]) THEN spaced[i] + 32
            ELSE spaced[i]]

(***************************************************************************)
(* Build step (build_site): the configuration and the content files are    *)
(* its input.  A Markdown file is modelled by what frontmatter.load        *)
(* returns for it: its metadata and its content, a Markdown text given as  *)
(* the sequence of its lines.                                              *)
(***************************************************************************)
\* a line that stands for Markdown on which markdown.markdown raises
RaisingLine == "{raises}"
MarkdownRaises(md_content) ==
    \E i \in 1..Len(md_content) : md_content[i] = RaisingLine

\* markdown.markdown(md_content).splitlines(), for the texts of the model: a
\* paragraph becomes a <p> element; a blank line (inside a fenced block)
\* stays a blank line of the HTML
HtmlOf(line) ==
    CASE line = "x" -> "<p>x</p>"
      [] line = "y" -> "<p>y</p>"
      [] OTHER -> line
Markdown(md_content) == [i \in 1..Len(md_content) |-> HtmlOf(md_content[i])]

\* line.strip() is empty
IsBlank(line) == line \in {"", " "}

RECURSIVE SelectLines(_)
SelectLines(lines) ==
    IF lines = <<>> THEN <<>>
    ELSE IF IsBlank(Head(lines)) THEN SelectLines(Tail(lines))
    ELSE <<Head(lines)>> \o SelectLines(Tail(lines))

\* lines 27-46 as they would be without the test line.strip()
markdown_to_lines_keepsBlank(md_content) ==
    IF md_content = <<>> THEN <<>>
    ELSE IF \A i \in 1..Len(md_content) : md_content[i] # "{raises}"
    THEN [i \in 1..Len(md_content) |->
             [text |-> IF md_content[i] = "x" THEN "<p>x</p>"
                       ELSE IF md_content[i] = "y" THEN "<p>y</p>"
                       ELSE md_content[i],
              isHtml |-> TRUE]]
    ELSE [i \in 1..Len(md_content) |-> [text |-> md_content[i], isHtml |-> FALSE]]

\* src/build.py:27-46
markdown_to_lines(md_content) ==
    IF md_content = <<>> THEN <<>>
    ELSE IF ~MarkdownRaises(md_content)
    THEN LET kept == SelectLines(Markdown(md_content))
         IN  [i \in 1..Len(kept) |-> [text |-> kept[i], isHtml |-> TRUE]]
    ELSE LET kept == SelectLines(md_content)
         IN  [i \in 1..Len(kept) |-> [text |-> kept[i], isHtml |-> FALSE]]

\* src/build.py:48-50
create_info_line(text) == [text |-> text, type |-> "info", isHtml |-> FALSE]

BackHint == "-- Press Esc to go back --"
BlogBackHint == "-- Press Esc to return to blog list --"

\* a file of content/ is absent ("missing"), one frontmatter.load raises on
\* ("unreadable"), or a document ("ok") with its metadata and content
IsDocument(file) == file.status = "ok"

\* src/build.py:110-120: the lines of one content page
ContentPageLines(file) ==
    IF IsDocument(file)
    THEN Append(markdown_to_lines(file.content), create_info_line(BackHint))
    ELSE <<>>

\* the loop as it would be without the test of line 102
RECURSIVE ContentViewData_noSkip(_, _, _)
ContentViewData_noSkip(nav, files, acc) ==
    IF nav = <<>> THEN acc
    ELSE LET item == Head(nav)
             target_view == item.targetView
             filename == item.filename
             page == /\ target_view \notin SPECIAL_VIEWS
                     /\ filename = NoValue \/ endswith(filename, ".md")
             lines == IF filename = NoValue THEN <<>>
                      ELSE ContentPageLines(files[filename])
             next == IF page
                     THEN [v \in DOMAIN acc \cup {target_view} |->
                              IF v = target_view THEN lines ELSE acc[v]]
                     ELSE acc
         IN  ContentViewData_noSkip(Tail(nav), files, next)

\* src/build.py:98-120: content_view_data after the loop over main_navigation
RECURSIVE ContentViewData(_, _, _)
ContentViewData(nav, files, acc) ==
    IF nav = <<>> THEN acc
    ELSE LET item == Head(nav)
             target_view == item.targetView
             filename == item.filename
             skip == target_view \in {NoValue, ""} \/ filename \in {NoValue, ""}
             page == /\ ~skip
                     /\ target_view \notin SPECIAL_VIEWS
                     /\ endswith(filename, ".md")
             lines == ContentPageLines(files[filename])
             next == IF page
                     THEN [v \in DOMAIN acc \cup {target_view} |->
                              IF v = target_view THEN lines ELSE acc[v]]
                     ELSE acc
         IN  ContentViewData(Tail(nav), files, next)

HasTarget(nav, view) == \E i \in 1..Len(nav) : nav[i].targetView = view

\* a front-matter value YAML loads as a datetime.date (an unquoted date), not
\* as a str; str() gives its ISO form, json.dumps raises TypeError on it
YamlDates == {"date(2024-06-01)"}
PyStr(value) == IF value = "date(2024-06-01)" THEN "2024-06-01" ELSE value

\* src/build.py:139-151: one post of the blog directory
BlogTitle(post, blog_id) ==
    IF "title" \in DOMAIN post.metadata THEN post.metadata.title
    ELSE Str(TitleCased(Codes(blog_id)))
BlogDate(post) ==
    IF "date" \in DOMAIN post.metadata THEN PyStr(post.metadata.date) ELSE ""
\* lines 145-150 as they would be without the test of line 146
BlogViewLines_dateAlways(post, blog_id) ==
    <<[text |-> BlogDate(post), type |-> "blog-date"],
      [text |-> BlogTitle(post, blog_id), type |-> "blog-title"], [text |-> ""]>>
    \o markdown_to_lines(post.content)
    \o <<create_info_line(BlogBackHint)>>

BlogViewLines(post, blog_id) ==
    (IF BlogDate(post) # "" THEN <<[text |-> BlogDate(post), type |-> "blog-date"]>>
     ELSE <<>>)
    \o <<[text |-> BlogTitle(post, blog_id), type |-> "blog-title"], [text |-> ""]>>
    \o markdown_to_lines(post.content)
    \o <<create_info_line(BlogBackHint)>>

\* line 134 as it would be without reverse=True
BlogFiles_ascending(listing) ==
    LET descending == SortedReverse({f \in listing : endswith(f, ".md")})
    IN  [i \in 1..Len(descending) |-> descending[Len(descending) + 1 - i]]

\* src/build.py:134-137: the posts in processing order, with their ids
BlogFiles(listing) == SortedReverse({f \in listing : endswith(f, ".md")})
BlogId(filename) == Str(SubSeq(Codes(filename), 1, Len(Codes(filename)) - 3))

\* the loop as it would be if the try of line 139 enclosed it: the first post
\* that fails to load ends it
RECURSIVE BlogsListOf_stopsAtFailure(_, _)
BlogsListOf_stopsAtFailure(filenames, posts) ==
    IF filenames = <<>> THEN <<>>
    ELSE LET filename == Head(filenames)
         IN  IF IsDocument(posts[filename])
             THEN <<[title |-> BlogTitle(posts[filename], BlogId(filename)),
                     id |-> BlogId(filename)]>>
                  \o BlogsListOf_stopsAtFailure(Tail(filenames), posts)
             ELSE <<>>

\* src/build.py:131-155: blogs_list_data; a post that fails to load is skipped
RECURSIVE BlogsListOf(_, _)
BlogsListOf(filenames, posts) ==
    IF filenames = <<>> THEN <<>>
    ELSE LET filename == Head(filenames)
             rest == BlogsListOf(Tail(filenames), posts)
         IN  IF IsDocument(posts[filename])
             THEN <<[title |-> BlogTitle(posts[filename], BlogId(filename)),
                     id |-> BlogId(filename)]>> \o rest
             ELSE rest
BlogsListData(nav, blog_dir, posts) ==
    IF HasTarget(nav, "blogs-list-view") /\ blog_dir.exists
    THEN BlogsListOf(BlogFiles(blog_dir.listing), posts)
    ELSE <<>>

\* src/build.py:131-155: blog_content_map
BlogContentData(nav, blog_dir, posts) ==
    LET list == BlogsListData(nav, blog_dir, posts)
        ids == {list[i].id : i \in 1..Len(list)}
        fileOf(id) == CHOOSE f \in blog_dir.listing :
                          endswith(f, ".md") /\ BlogId(f) = id
    IN  [id \in ids |-> BlogViewLines(posts[fileOf(id)], id)]

\* html.escape, for the strings of the model
Escape(str) == IF str = "Q&A" THEN "Q&amp;A" ELSE str

\* the loop over socials_links as it would be if it ran from the last link
SocialLines_reversed(links) ==
    [i \in 1..Len(links) |->
        LET link_config == links[Len(links) + 1 - i]
            url == IF "url" \in DOMAIN link_config THEN link_config.url ELSE "#"
        IN  [text |-> [name |-> IF "name" \in DOMAIN link_config
                                THEN IF link_config.name = "Q&A" THEN "Q&amp;A"
                                     ELSE link_config.name
                                ELSE "",
                       href |-> url,
                       display |-> IF "display_text" \in DOMAIN link_config
                                   THEN IF link_config.display_text = "Q&A"
                                        THEN "Q&amp;A" ELSE link_config.display_text
                                   ELSE url],
             type |-> "list-item", isHtml |-> TRUE]]

\* src/build.py:163-169: the line of one link; link_html is kept as its
\* three parts, the escaped name, the href and the escaped display text
SocialLine(link_config) ==
    LET name == IF "name" \in DOMAIN link_config THEN link_config.name ELSE ""
        url == IF "url" \in DOMAIN link_config THEN link_config.url ELSE "#"
        display == IF "display_text" \in DOMAIN link_config
                   THEN link_config.display_text ELSE url
        link_html == [name |-> Escape(name), href |-> url, display |-> Escape(display)]
    IN  [text |-> link_html, type |-> "list-item", isHtml |-> TRUE]
\* src/build.py:162-169
SocialLines(links) == [i \in 1..Len(links) |-> SocialLine(links[i])]
\* src/build.py:158-170: socials_view_data
SocialsViewData(nav, heading, links) ==
    IF HasTarget(nav, "socials-view")
    THEN <<[text |-> heading, type |-> "heading"], [text |-> ""]>>
         \o SocialLines(links)
         \o <<create_info_line(BackHint)>>
    ELSE <<>>

\* src/build.py:694-707: the ids of the view containers written to the page
AllViewIds(nav) ==
    {"main-view", "blog-content-view"}
    \cup {nav[i].targetView : i \in {j \in 1..Len(nav) : nav[j].targetView \notin {NoValue, ""}}}


(***************************************************************************)
(* Runtime (the page's script).  S is the runtime's state as a record;     *)
(* the operators below take it and return it changed, as the JavaScript    *)
(* functions change the globals.  Four fields belong to one handler run:   *)
(* acted (the handler went past its guards), switched (switchView ran to   *)
(* its end, src/build.py:603-609), threw (an uncaught TypeError ended the  *)
(* handler), redirected (switchView took the branch of an invalid blogId,  *)
(* src/build.py:581-584) and populated (switchView called populateView,    *)
(* src/build.py:598-601).                                                  *)
(***************************************************************************)
S ==
    [currentViewId |-> currentViewId, previousViewId |-> previousViewId,
     isCommandMode |-> isCommandMode, commandInput |-> commandInput,
     isThemePopupActive |-> isThemePopupActive,
     themePopupItems |-> themePopupItems,
     currentThemePopupIndex |-> currentThemePopupIndex,
     appliedThemeClassName |-> appliedThemeClassName,
     viewStates |-> viewStates, activeViews |-> activeViews,
     bodyClassName |-> bodyClassName, windowClosed |-> windowClosed,
     acted |-> FALSE, switched |-> FALSE, threw |-> FALSE, redirected |-> FALSE,
     populated |-> FALSE]

\* a JavaScript string (or undefined) used as a condition
Truthy(x) == x \notin {"", NoValue}

\* src/build.py:446-504: the line elements of a view, with their dataset
populateView(viewId, data) ==
    [i \in 1..Len(data) |->
        IF viewId = "main-view"
        THEN [index |-> i - 1, targetView |-> data[i].targetView, blogId |-> NoValue]
        ELSE IF viewId = "blogs-list-view"
        THEN [index |-> i - 1, targetView |-> "blog-content-view", blogId |-> data[i].id]
        ELSE [index |-> i - 1, targetView |-> NoValue, blogId |-> NoValue]]

\* src/build.py:516-536
setActiveLine(s, viewId) ==
    IF viewId \notin DOMAIN s.viewStates THEN s
    ELSE LET state == s.viewStates[viewId]
         IN  IF Len(state.lines) = 0 THEN s
             ELSE IF state.currentIndex < 0 \/ state.currentIndex >= Len(state.lines)
             THEN [s EXCEPT !.viewStates[viewId].currentIndex = 0]
             ELSE s

\* src/build.py:563-595: the data source of a view, with its identity.  The
\* identity "fresh" is the array literal of line 594, a new array every time.
SourceData(targetViewId, blogId) ==
    IF targetViewId = "main-view"
    THEN [ref |-> <<"mainViewData">>, data |-> mainViewData]
    ELSE IF targetViewId = "blogs-list-view"
    THEN [ref |-> <<"blogsListData">>, data |-> blogsListData]
    ELSE IF targetViewId = "socials-view"
    THEN [ref |-> <<"socialsViewData">>, data |-> socialsViewData]
    ELSE IF targetViewId = "blog-content-view"
    THEN [ref |-> <<"blogContentData", blogId>>, data |-> blogContentData[blogId]]
    ELSE IF targetViewId \in DOMAIN contentViewData
    THEN [ref |-> <<"contentViewData", targetViewId>>,
          data |-> contentViewData[targetViewId]]
    ELSE [ref |-> <<"fresh">>, data |-> <<>>]

\* state.data !== sourceData
DataChanged(stateData, sourceRef) == sourceRef = <<"fresh">> \/ stateData # sourceRef

\* src/build.py:576: blogId && blogContentData[blogId]
BlogFound(blogId) == Truthy(blogId) /\ blogId \in DOMAIN blogContentData

\* lines 597-609 as they would be without the test of line 598
ShowView_alwaysPopulates(s, targetViewId, blogId) ==
    LET source == SourceData(targetViewId, blogId)
        state == s.viewStates[targetViewId]
        shown == [state EXCEPT
                    !.blogId = IF targetViewId = "blog-content-view" THEN blogId ELSE @,
                    !.data = source.ref,
                    !.lines = populateView(targetViewId, source.data),
                    !.currentIndex = 0]
    IN  setActiveLine([s EXCEPT !.viewStates[targetViewId] = shown,
                                !.activeViews = {targetViewId},
                                !.switched = TRUE,
                                !.populated = TRUE],
                      targetViewId)

\* src/build.py:597-609: populate if needed, show the view, cursor to the top
ShowView(s, targetViewId, blogId) ==
    LET source == SourceData(targetViewId, blogId)
        state == s.viewStates[targetViewId]
        populate == Len(state.lines) = 0 \/ DataChanged(state.data, source.ref)
        shown == [state EXCEPT
                    !.blogId = IF targetViewId = "blog-content-view" THEN blogId ELSE @,
                    !.data = IF populate THEN source.ref ELSE @,
                    !.lines = IF populate THEN populateView(targetViewId, source.data) ELSE @,
                    !.currentIndex = 0]
    IN  setActiveLine([s EXCEPT !.viewStates[targetViewId] = shown,
                                !.activeViews = {targetViewId},
                                !.switched = TRUE,
                                !.populated = populate],
                      targetViewId)

\* switchView as it would be if line 583 were missing: an invalid blogId
\* returns with every view hidden
switchView_noRedirect(s, targetViewId, blogId) ==
    IF s.isCommandMode \/ s.isThemePopupActive THEN s
    ELSE IF targetViewId \notin views THEN s
    ELSE LET entered == [s EXCEPT !.previousViewId = s.currentViewId,
                                  !.currentViewId = targetViewId,
                                  !.activeViews = {}]
         IN  IF targetViewId = "blog-content-view" /\ ~BlogFound(blogId)
             THEN entered
             ELSE ShowView(entered, targetViewId, blogId)

\* switchView as it would be if line 583 always went back to main-view
switchView_redirectsToMain(s, targetViewId, blogId) ==
    IF s.isCommandMode \/ s.isThemePopupActive THEN s
    ELSE IF targetViewId \notin views THEN s
    ELSE LET entered == [s EXCEPT !.previousViewId = s.currentViewId,
                                  !.currentViewId = targetViewId,
                                  !.activeViews = {}]
         IN  IF targetViewId = "blog-content-view" /\ ~BlogFound(blogId)
             THEN ShowView([entered EXCEPT !.redirected = TRUE,
                                           !.previousViewId = "blog-content-view",
                                           !.currentViewId = "main-view"],
                           "main-view", NoValue)
             ELSE ShowView(entered, targetViewId, blogId)

\* src/build.py:539-610
RECURSIVE switchView(_, _, _)
switchView(s, targetViewId, blogId) ==
    IF s.isCommandMode \/ s.isThemePopupActive THEN s
    ELSE IF targetViewId \notin views THEN s
    ELSE LET entered == [s EXCEPT !.previousViewId = s.currentViewId,
                                  !.currentViewId = targetViewId,
                                  !.activeViews = {}]
         IN  IF targetViewId = "blog-content-view" /\ ~BlogFound(blogId)
             THEN switchView([entered EXCEPT !.redirected = TRUE],
                             IF Truthy(entered.previousViewId)
                             THEN entered.previousViewId ELSE "main-view",
                             NoValue)
             ELSE ShowView(entered, targetViewId, blogId)

\* src/build.py:613
enterCommandMode(s) ==
    IF s.isThemePopupActive THEN s
    ELSE [s EXCEPT !.isCommandMode = TRUE, !.commandInput = <<>>]

\* exitCommandMode as it would be if it left isCommandMode as it is
exitCommandMode_keepsMode(s) == [s EXCEPT !.commandInput = <<>>]

\* src/build.py:614
exitCommandMode(s) == [s EXCEPT !.isCommandMode = FALSE, !.commandInput = <<>>]

\* src/build.py:616
applyTheme(s, themeClassName) ==
    IF Truthy(themeClassName) THEN [s EXCEPT !.bodyClassName = themeClassName] ELSE s

\* themes[index]?.disabled
Disabled(index) ==
    index >= 0 /\ index < Len(themes) /\ themes[index + 1].disabled

\* src/build.py:618: class "active" ends on item activeIndex alone, and on
\* no item when that one is disabled or absent
highlightThemeItem(s, activeIndex) ==
    [s EXCEPT !.themePopupItems =
        [i \in 1..Len(s.themePopupItems) |->
            [@[i] EXCEPT !.active = (i - 1 = activeIndex) /\ ~Disabled(i - 1)]]]

\* src/build.py:617
previewTheme(s, index) ==
    IF index >= 0 /\ index < Len(themes) /\ ~Disabled(index)
    THEN highlightThemeItem(
             applyTheme([s EXCEPT !.currentThemePopupIndex = index],
                        themes[index + 1].className),
             index)
    ELSE s

\* closeThemePopup as it would be if it never reverted the page's theme
closeThemePopup_noRevert(s, revertTheme) == [s EXCEPT !.isThemePopupActive = FALSE]

\* src/build.py:619
closeThemePopup(s, revertTheme) ==
    LET closed == [s EXCEPT !.isThemePopupActive = FALSE]
    IN  IF revertTheme THEN applyTheme(closed, closed.appliedThemeClassName)
        ELSE closed

\* src/build.py:620
confirmThemeSelection(s) ==
    IF ~s.isThemePopupActive \/ Disabled(s.currentThemePopupIndex) THEN s
    ELSE closeThemePopup(
             [s EXCEPT !.appliedThemeClassName =
                           themes[s.currentThemePopupIndex + 1].className],
             FALSE)

\* src/build.py:622-635: the items are rebuilt, none carries class "active"
populateThemeList(s) ==
    [s EXCEPT !.themePopupItems =
        [i \in 1..Len(themes) |-> [active |-> FALSE, disabled |-> themes[i].disabled]]]

\* themes.findIndex(t => t.className === appliedThemeClassName && !t.disabled)
RECURSIVE FindAppliedIndex(_, _)
FindAppliedIndex(s, i) ==
    IF i >= Len(themes) THEN -1
    ELSE IF themes[i + 1].className = s.appliedThemeClassName /\ ~themes[i + 1].disabled
    THEN i
    ELSE FindAppliedIndex(s, i + 1)

\* src/build.py:640-641: the first entry that is not disabled, else 0
RECURSIVE InitialValidIndex(_)
InitialValidIndex(i) ==
    IF i >= Len(themes) THEN 0
    ELSE IF ~themes[i + 1].disabled THEN i
    ELSE InitialValidIndex(i + 1)

\* line 642 as it would be if it always started on the first enabled entry
PopupStartIndex_first(s) == InitialValidIndex(0)

\* src/build.py:642
PopupStartIndex(s) ==
    LET currentAppliedIndex == FindAppliedIndex(s, 0)
    IN  IF currentAppliedIndex >= 0 /\ ~Disabled(currentAppliedIndex)
        THEN currentAppliedIndex
        ELSE InitialValidIndex(0)

\* src/build.py:637-645; themes[currentThemePopupIndex].className throws a
\* TypeError on an empty theme list
openThemePopup(s) ==
    LET listed == populateThemeList(IF s.isCommandMode THEN exitCommandMode(s) ELSE s)
        start == PopupStartIndex(listed)
        marked == highlightThemeItem([listed EXCEPT !.currentThemePopupIndex = start],
                                     start)
    IN  IF Len(themes) = 0 THEN [marked EXCEPT !.threw = TRUE]
        ELSE [applyTheme(marked, themes[start + 1].className)
                 EXCEPT !.isThemePopupActive = TRUE]

\* commandInput.trim()
IsSpace(ch) == ch = " "
RECURSIVE TrimStart(_)
TrimStart(seq) ==
    IF seq # <<>> /\ IsSpace(Head(seq)) THEN TrimStart(Tail(seq)) ELSE seq
RECURSIVE TrimEnd(_)
TrimEnd(seq) ==
    IF seq # <<>> /\ IsSpace(seq[Len(seq)]) THEN TrimEnd(SubSeq(seq, 1, Len(seq) - 1))
    ELSE seq
Trim(seq) == TrimEnd(TrimStart(seq))

CmdThemes == <<"t", "h", "e", "m", "e", "s">>
CmdQ == <<"q">>
CmdQuit == <<"q", "u", "i", "t">>

\* processCommand as it would be without its closing exitCommandMode()
processCommand_noExit(s, closes) ==
    LET cmd == Trim(s.commandInput)
    IN  IF cmd = CmdThemes THEN openThemePopup(s)
        ELSE IF cmd = CmdQ \/ cmd = CmdQuit THEN [s EXCEPT !.windowClosed = closes]
        ELSE s

\* src/build.py:615; closes: whether the browser lets window.close() end the
\* session (it does only for a window a script opened)
processCommand(s, closes) ==
    LET cmd == Trim(s.commandInput)
        done == IF cmd = CmdThemes THEN openThemePopup(s)
                ELSE IF cmd = CmdQ \/ cmd = CmdQuit
                THEN [s EXCEPT !.windowClosed = closes]
                ELSE s
    IN  IF done.threw THEN done ELSE exitCommandMode(done)

\* goBack as it would be if it returned to the view remembered as previous
goBack_previous(s) ==
    LET targetView == IF Truthy(s.previousViewId) THEN s.previousViewId ELSE "main-view"
    IN  IF s.currentViewId # "main-view" THEN switchView(s, targetView, NoValue) ELSE s

\* goBack as it would be if the blog list were left by no Escape
goBack_staysInBlogList(s) ==
    IF s.currentViewId = "blog-content-view"
    THEN switchView(s, "blogs-list-view", NoValue)
    ELSE IF s.currentViewId \notin {"main-view", "blogs-list-view"}
    THEN switchView(s, "main-view", NoValue)
    ELSE s

\* src/build.py:650
goBack(s) ==
    LET targetView == IF s.currentViewId = "blog-content-view"
                      THEN "blogs-list-view" ELSE "main-view"
    IN  IF s.currentViewId # "main-view" THEN switchView(s, targetView, NoValue) ELSE s

(***************************************************************************)
(* Event handlers.                                                         *)
(***************************************************************************)
NamedKeys == {"Enter", "Escape", "Backspace", "ArrowDown", "ArrowUp",
              "ArrowLeft", "ArrowRight"}
\* the keys whose event.key is one character
CharKeys == {":", "j", "k", "h", "l", "t", "e", "m", "s", "q", "u", "i", " "}
Keys == NamedKeys \cup CharKeys

DownKeys == {"j", "ArrowDown"}
UpKeys == {"k", "ArrowUp"}
HorizontalKeys == {"h", "ArrowLeft", "l", "ArrowRight"}

\* src/build.py:654, the while loop: the nearest entry that is not disabled
\* from potentialIndex on in the direction, else fallback
RECURSIVE ScanThemes(_, _, _)
ScanThemes(potentialIndex, direction, fallback) ==
    IF potentialIndex < 0 \/ potentialIndex >= Len(themes) THEN fallback
    ELSE IF ~Disabled(potentialIndex) THEN potentialIndex
    ELSE ScanThemes(potentialIndex + direction, direction, fallback)

\* src/build.py:654: the keys of the theme popup
themePopupKeys(s, key) ==
    LET direction == IF key \in DownKeys THEN 1 ELSE IF key \in UpKeys THEN -1 ELSE 0
        handled == IF key = "Enter" THEN confirmThemeSelection(s)
                   ELSE IF key = "Escape" THEN closeThemePopup(s, TRUE)
                   ELSE s
        newIndex == IF direction # 0
                    THEN ScanThemes(s.currentThemePopupIndex + direction, direction,
                                    s.currentThemePopupIndex)
                    ELSE s.currentThemePopupIndex
        moved == IF direction # 0 /\ newIndex # s.currentThemePopupIndex
                    /\ ~Disabled(newIndex)
                 THEN previewTheme(handled, newIndex)
                 ELSE handled
    IN  [moved EXCEPT !.acted = key \in DownKeys \cup UpKeys \cup {"Enter", "Escape"}]

\* the keys of command mode as they would be if Backspace emptied the buffer
commandModeKeys_backspaceClears(s, key, closes) ==
    IF key = "Enter" THEN [processCommand(s, closes) EXCEPT !.acted = TRUE]
    ELSE IF key = "Escape" THEN [exitCommandMode(s) EXCEPT !.acted = TRUE]
    ELSE IF key = "Backspace" THEN [s EXCEPT !.commandInput = <<>>, !.acted = TRUE]
    ELSE IF key \in CharKeys
    THEN [s EXCEPT !.commandInput = Append(@, key), !.acted = TRUE]
    ELSE s

\* src/build.py:655: the keys of command mode
commandModeKeys(s, key, closes) ==
    IF key = "Enter" THEN [processCommand(s, closes) EXCEPT !.acted = TRUE]
    ELSE IF key = "Escape" THEN [exitCommandMode(s) EXCEPT !.acted = TRUE]
    ELSE IF key = "Backspace"
    THEN [s EXCEPT !.commandInput = SubSeq(@, 1, Len(@) - 1), !.acted = TRUE]
    ELSE IF key \in CharKeys
    THEN [s EXCEPT !.commandInput = Append(@, key), !.acted = TRUE]
    ELSE s

\* src/build.py:656, case 'Enter'
activateLine(s) ==
    LET state == s.viewStates[s.currentViewId]
    IN  IF s.currentViewId \in ListViews /\ Len(state.lines) > 0
           /\ state.currentIndex >= 0 /\ state.currentIndex < Len(state.lines)
        THEN LET activeLine == state.lines[state.currentIndex + 1]
             IN  IF activeLine.targetView # ""
                 THEN switchView(s, activeLine.targetView, activeLine.blogId)
                 ELSE s
        ELSE s

\* the cursor keys as they would be if they wrapped around the ends
newIndexOf_wraps(state, key) ==
    LET n == Len(state.lines)
    IN  IF key \in DownKeys /\ n > 0 THEN (state.currentIndex + 1) % n
        ELSE IF key \in UpKeys /\ n > 0 THEN (state.currentIndex + n - 1) % n
        ELSE state.currentIndex

\* src/build.py:656, cases 'j', 'ArrowDown', 'k' and 'ArrowUp': newIndex
newIndexOf(state, key) ==
    LET n == Len(state.lines)
    IN  IF key \in DownKeys /\ n > 0 THEN Min(n - 1, state.currentIndex + 1)
        ELSE IF key \in UpKeys /\ n > 0 THEN Max(0, state.currentIndex - 1)
        ELSE state.currentIndex

\* src/build.py:656: the keys of a view.  state is the view the key arrived in;
\* the closing test moves its cursor to newIndex whenever the two differ.
normalViewKeys(s, key) ==
    LET viewId == s.currentViewId
        state == s.viewStates[viewId]
        newIndex == newIndexOf(state, key)
        handled == IF key = ":" THEN enterCommandMode(s)
                   ELSE IF key = "Enter" THEN activateLine(s)
                   ELSE IF key = "Escape" THEN goBack(s)
                   ELSE s
        processed == key \in {":", "Enter", "Escape"} \cup DownKeys \cup UpKeys
                             \cup HorizontalKeys
        after == handled.viewStates[viewId]
        moved == IF processed /\ newIndex # after.currentIndex /\ Len(after.lines) > 0
                 THEN setActiveLine(
                          [handled EXCEPT !.viewStates[viewId].currentIndex = newIndex],
                          handled.currentViewId)
                 ELSE handled
    IN  [moved EXCEPT !.acted = processed]

\* src/build.py:652-658
handleKeyDown(s, key, closes) ==
    IF s.isThemePopupActive THEN themePopupKeys(s, key)
    ELSE IF s.isCommandMode THEN commandModeKeys(s, key, closes)
    ELSE IF s.currentViewId \notin DOMAIN s.viewStates THEN s
    ELSE normalViewKeys(s, key)

\* handleListClick as it would be if it took the line's number for its index
handleListClick_lineNumber(s, line) ==
    IF s.isCommandMode \/ s.isThemePopupActive THEN s
    ELSE IF s.currentViewId \notin DOMAIN s.viewStates THEN s
    ELSE LET set == [s EXCEPT !.viewStates[s.currentViewId].currentIndex = line.index + 1,
                              !.acted = TRUE]
         IN  IF line.targetView # ""
             THEN switchView(set, line.targetView, line.blogId)
             ELSE set

\* src/build.py:648: a click on line element `line` of a list view
handleListClick(s, line) ==
    IF s.isCommandMode \/ s.isThemePopupActive THEN s
    ELSE IF s.currentViewId \notin DOMAIN s.viewStates THEN s
    ELSE LET set == [s EXCEPT !.viewStates[s.currentViewId].currentIndex = line.index,
                              !.acted = TRUE]
         IN  IF line.targetView # ""
             THEN switchView(set, line.targetView, line.blogId)
             ELSE set

\* handleListMouseOver as it would be without the test of the modes
handleListMouseOver_noGuard(s, line) ==
    IF s.currentViewId \notin DOMAIN s.viewStates THEN s
    ELSE setActiveLine(
             [s EXCEPT !.viewStates[s.currentViewId].currentIndex = line.index,
                       !.acted = TRUE],
             s.currentViewId)

\* src/build.py:649
handleListMouseOver(s, line) ==
    IF s.isCommandMode \/ s.isThemePopupActive THEN s
    ELSE IF s.currentViewId \notin DOMAIN s.viewStates THEN s
    ELSE setActiveLine(
             [s EXCEPT !.viewStates[s.currentViewId].currentIndex = line.index,
                       !.acted = TRUE],
             s.currentViewId)

\* src/build.py:629: the click listener of a theme item
themeItemClick(s, index) ==
    [confirmThemeSelection(previewTheme(s, index)) EXCEPT !.acted = TRUE]

\* src/build.py:630: the mouseover listener of a theme item
themeItemMouseOver(s, index) == [previewTheme(s, index) EXCEPT !.acted = TRUE]

\* src/build.py:634: the mouseleave listener of the theme list
themeListMouseLeave(s) ==
    IF s.isThemePopupActive
    THEN [highlightThemeItem(applyTheme(s, s.appliedThemeClassName),
                             FindAppliedIndex(s, 0))
             EXCEPT !.acted = TRUE]
    ELSE s

\* src/build.py:661-684, from the page as the browser parsed it
\* (src/build.py:399-410 and 720-729)
initialize ==
    LET loaded ==
            [currentViewId |-> "main-view", previousViewId |-> NoValue,
             isCommandMode |-> FALSE, commandInput |-> <<>>,
             isThemePopupActive |-> FALSE, themePopupItems |-> <<>>,
             currentThemePopupIndex |-> 0,
             appliedThemeClassName |->
                 IF Truthy(defaultTheme) THEN defaultTheme ELSE "theme-dracula",
             viewStates |->
                 [v \in views |->
                     [lines |-> <<>>, currentIndex |-> 0,
                      data |-> IF v = "main-view" THEN <<"mainViewData">> ELSE <<"init">>,
                      blogId |-> NoValue]],
             activeViews |-> {"main-view"}, bodyClassName |-> defaultTheme,
             windowClosed |-> FALSE,
             acted |-> TRUE, switched |-> FALSE, threw |-> FALSE,
             redirected |-> FALSE, populated |-> FALSE]
    IN  switchView(applyTheme(loaded, loaded.appliedThemeClassName), "main-view", NoValue)

(***************************************************************************)
(* The state machine.                                                      *)
(***************************************************************************)
Mode ==
    IF isThemePopupActive THEN "ThemePicker"
    ELSE IF isCommandMode THEN "CommandEntry"
    ELSE "Normal"

\* the first key of the case labels a key shares its branch with
\* (src/build.py:654-656)
KeyCase(key) ==
    IF key \in DownKeys THEN "j"
    ELSE IF key \in UpKeys THEN "k"
    ELSE IF key \in HorizontalKeys THEN "h"
    ELSE key

\* the length of the run of consecutive "down" keys this key extends: a run
\* starts with a down pressed in Normal mode on the first line of a view with
\* n >= 1 lines, and is counted up to n + DownsBeyond
DownRun(type, key) ==
    LET n == Len(viewStates[currentViewId].lines)
    IN  IF type = "key" /\ Mode = "Normal" /\ key \in DownKeys /\ n >= 1
        THEN IF lastEvent.downs > 0 THEN Min(lastEvent.downs + 1, n + DownsBeyond)
             ELSE IF viewStates[currentViewId].currentIndex = 0 THEN 1
             ELSE 0
        ELSE 0

\* the length of the run of consecutive Escape keys this key extends
EscapeRun(type, key) ==
    IF type = "key" /\ key = "Escape" THEN Min(lastEvent.escapes + 1, EscapesCounted)
    ELSE 0

\* the record of an event: what it was, the mode it arrived in, the run of
\* downs it extends and, when it switched views, the cursor the view it ended
\* on had before
Event(r, type, key) ==
    [type |-> type, key |-> IF Mode = "CommandEntry" THEN key ELSE KeyCase(key),
     mode |-> Mode,
     switched |-> r.switched, threw |-> r.threw, redirected |-> r.redirected,
     populated |-> r.populated,
     cursorBefore |-> IF r.switched THEN viewStates[r.currentViewId].currentIndex
                      ELSE 0,
     downs |-> DownRun(type, key), escapes |-> EscapeRun(type, key)]

\* the handler's result becomes the next state; an event no handler acts on
\* leaves every variable as it is
Handle(r, type, key) ==
    IF r.acted
    THEN /\ currentViewId' = r.currentViewId
         /\ previousViewId' = r.previousViewId
         /\ isCommandMode' = r.isCommandMode
         /\ commandInput' = r.commandInput
         /\ isThemePopupActive' = r.isThemePopupActive
         /\ themePopupItems' = r.themePopupItems
         /\ currentThemePopupIndex' = r.currentThemePopupIndex
         /\ appliedThemeClassName' = r.appliedThemeClassName
         /\ viewStates' = r.viewStates
         /\ activeViews' = r.activeViews
         /\ bodyClassName' = r.bodyClassName
         /\ windowClosed' = r.windowClosed
         /\ lastEvent' = Event(r, type, key)
         /\ UNCHANGED <<build, payload>>
    ELSE UNCHANGED vars

\* the command lines a user is modelled to type, key by key
CommandWords == {CmdThemes, <<" ", "q", " ">>}
IsTypedPrefix(seq) ==
    \E w \in CommandWords : Len(seq) <= Len(w) /\ SubSeq(w, 1, Len(seq)) = seq

\* a key press
KeyDown ==
    \E key \in Keys, closes \in BOOLEAN :
        /\ ~windowClosed
        /\ closes => (Mode = "CommandEntry" /\ key = "Enter")
        /\ (isCommandMode /\ ~isThemePopupActive /\ key \in CharKeys)
               => IsTypedPrefix(Append(commandInput, key))
        /\ Handle(handleKeyDown(S, key, closes), "key", key)

\* the line elements the mouse can reach: those of a visible list view
VisibleListLines ==
    UNION {{viewStates[v].lines[i] : i \in 1..Len(viewStates[v].lines)} :
             v \in activeViews \cap ListViews}

ListClick ==
    \E line \in VisibleListLines :
        /\ ~windowClosed
        /\ Handle(handleListClick(S, line), "click", "")

ListMouseOver ==
    \E line \in VisibleListLines :
        /\ ~windowClosed
        /\ Handle(handleListMouseOver(S, line), "mouseover", "")

\* the theme items that have listeners: those not disabled, while the popup shows
EnabledThemeItems ==
    {i \in 0..(Len(themePopupItems) - 1) : ~themePopupItems[i + 1].disabled}

ThemeItemClick ==
    \E index \in EnabledThemeItems :
        /\ ~windowClosed /\ isThemePopupActive
        /\ Handle(themeItemClick(S, index), "theme-click", "")

ThemeItemMouseOver ==
    \E index \in EnabledThemeItems :
        /\ ~windowClosed /\ isThemePopupActive
        /\ Handle(themeItemMouseOver(S, index), "theme-mouseover", "")

ThemeListMouseLeave ==
    /\ ~windowClosed /\ isThemePopupActive
    /\ Handle(themeListMouseLeave(S), "theme-mouseleave", "")

Next ==
    \/ KeyDown
    \/ ListClick
    \/ ListMouseOver
    \/ ThemeItemClick
    \/ ThemeItemMouseOver
    \/ ThemeListMouseLeave

(***************************************************************************)
(* Inputs of the build drawn in Init.                                      *)
(***************************************************************************)
Nav(targetView, filename) == [targetView |-> targetView, filename |-> filename]
\* the main_navigation lists drawn in Init: none; the blog; a page beside the
\* socials; a page whose file is no .md file; an entry without targetView
\* beside one that names the blog-content view
NavLists ==
    {<<>>,
     <<Nav("blogs-list-view", "x.md")>>,
     <<Nav("about-view", "about.md"), Nav("socials-view", "x.md")>>,
     <<Nav("about-view", "about.txt")>>,
     <<Nav(NoValue, "about.md"), Nav("blog-content-view", "x.md")>>}

\* the lines of a Markdown body that renders: a paragraph, a blank line
MarkdownLines == {"x", " "}
Documents == UNION {[1..n -> MarkdownLines] : n \in 0..MaxBodyLines}
FullBody == [i \in 1..MaxBodyLines |-> "x"]

ContentFiles ==
    {[status |-> "missing"], [status |-> "unreadable"]}
    \cup {[status |-> "ok", metadata |-> <<>>, content |-> d] : d \in Documents}

\* content/blogs: absent, empty, or holding three posts and a file that is no
\* post; a.md has front matter and a full body, the others have neither
BlogDirs ==
    {[exists |-> FALSE, listing |-> {}],
     [exists |-> TRUE, listing |-> {}],
     [exists |-> TRUE, listing |-> {".md", "a.md", "b.md", "b.txt"}]}
BlogPosts ==
    [f \in {".md", "a.md", "b.md"} |->
        IF f = "a.md"
        THEN [status |-> "ok", metadata |-> [title |-> "A", date |-> "2024-01-01"],
              content |-> FullBody]
        ELSE [status |-> "ok", metadata |-> <<>>, content |-> <<>>]]

GitHubLink == [name |-> "GitHub", url |-> "https://github.com/u"]
SocialLinks == UNION {[1..n -> {GitHubLink}] : n \in 0..MaxSocialLinks}

\* the themes lists drawn in Init: every entry is a theme of its own or a
\* disabled entry; a disabled entry is a separator (no className) when the
\* list holds a theme before it, and else carries the className "theme-dracula"
ThemeClasses == <<"theme-gruvbox", "theme-monokai", "theme-nord", "theme-onenord",
                  "theme-catppuccin", "theme-nightfox">>
ThemeList(shape) ==
    [i \in 1..Len(shape) |->
        LET before == Cardinality({j \in 1..(i - 1) : ~shape[j]})
        IN  IF shape[i]
            THEN [className |-> IF before = 0 THEN "theme-dracula" ELSE "",
                  disabled |-> TRUE]
            ELSE [className |-> ThemeClasses[before + 1], disabled |-> FALSE]]
ThemeLists == {ThemeList(shape) : shape \in UNION {[1..n -> BOOLEAN] : n \in 0..MaxThemes}}
\* default_theme: the first theme of a list, or the className a list holds
\* on disabled entries only
DefaultThemes == {"theme-gruvbox", "theme-dracula"}

\* the runtime starts from the page of a finished build; what the build read
\* plays no part in it and is not kept
PageOnly == [config_file |-> [status |-> "ok"]]

\* the page build_site writes for a configuration, loaded and initialized
Setup(cfg) ==
    /\ input = PageOnly
    /\ pc = "done"
    /\ exitStatus = 0
    /\ outputFile = "written"
    /\ mainViewData = cfg.main_navigation
    /\ blogsListData = BlogsListData(cfg.main_navigation, cfg.blog_dir, cfg.posts)
    /\ blogContentData = BlogContentData(cfg.main_navigation, cfg.blog_dir, cfg.posts)
    /\ contentViewData = ContentViewData(cfg.main_navigation, cfg.files, <<>>)
    /\ socialsViewData =
           SocialsViewData(cfg.main_navigation, cfg.socials_heading, cfg.socials_links)
    /\ themes = cfg.themes
    /\ defaultTheme = cfg.default_theme
    /\ views = AllViewIds(cfg.main_navigation)
    /\ LET r == initialize
       IN  /\ currentViewId = r.currentViewId
           /\ previousViewId = r.previousViewId
           /\ isCommandMode = r.isCommandMode
           /\ commandInput = r.commandInput
           /\ isThemePopupActive = r.isThemePopupActive
           /\ themePopupItems = r.themePopupItems
           /\ currentThemePopupIndex = r.currentThemePopupIndex
           /\ appliedThemeClassName = r.appliedThemeClassName
           /\ viewStates = r.viewStates
           /\ activeViews = r.activeViews
           /\ bodyClassName = r.bodyClassName
           /\ windowClosed = r.windowClosed
           /\ lastEvent = [type |-> "initialize", key |-> "", mode |-> "Normal",
                           switched |-> r.switched, threw |-> r.threw,
                           redirected |-> r.redirected,
                           populated |-> r.populated,
                           cursorBefore |-> 0, downs |-> 0, escapes |-> 0]

\* the theme list of the runs that vary the navigation and the content
FixedThemes == <<[className |-> "theme-dracula", disabled |-> FALSE]>>

\* the navigation of the runs that vary the themes
FixedNav == <<Nav("about-view", "about.md")>>

Config(nav, about, blog_dir, links, themeList, default) ==
    [main_navigation |-> nav,
     files |-> [f \in {"about.md"} |-> about],
     blog_dir |-> blog_dir, posts |-> BlogPosts,
     socials_heading |-> "Socials & Links", socials_links |-> links,
     themes |-> themeList, default_theme |-> default]

\* every navigation and content, one theme list
Init ==
    \E nav \in NavLists, about \in ContentFiles, blog_dir \in BlogDirs,
       links \in SocialLinks :
        Setup(Config(nav, about, blog_dir, links, FixedThemes, "theme-dracula"))

\* every theme list and default theme, one navigation
InitThemes ==
    \E themeList \in ThemeLists, default \in DefaultThemes :
        Setup(Config(FixedNav, [status |-> "missing"],
                     [exists |-> TRUE, listing |-> {".md", "a.md", "b.md", "b.txt"}],
                     <<>>, themeList, default))

Spec == Init /\ [][Next]_vars
SpecThemes == InitThemes /\ [][Next]_vars

(***************************************************************************)
(* The build as a process (build_site, src/build.py:54-767): one action    *)
(* per phase.  content_view_data, blogs_list_data, blog_content_map and    *)
(* socials_view_data are the variables contentViewData, blogsListData,     *)
(* blogContentData and socialsViewData; js_data fills mainViewData, themes *)
(* and defaultTheme; all_view_ids is views.  The runtime's variables keep  *)
(* the values of a page that is not loaded.                                *)
(***************************************************************************)
\* config.yaml as build_site finds it: absent, no YAML, not readable, empty
\* (yaml.safe_load returns None or an empty mapping), or a configuration
ConfigStatuses == {"ok", "missing", "unparseable", "unreadable", "empty"}

\* the values config.get reads (src/build.py:78-84)
Cfg == input.config_file.config

\* lines 60-75 as they would be without the test of line 63
ConfigFatal_noEmptyTest(config_file) ==
    config_file.status \in {"missing", "unparseable", "unreadable"}

\* src/build.py:60-75: every outcome but a configuration ends in sys.exit(1)
ConfigFatal(config_file) ==
    config_file.status \in {"missing", "unparseable", "unreadable", "empty"}

\* src/build.py:58-75
LoadConfig ==
    /\ pc = "config"
    /\ IF ConfigFatal(input.config_file)
       THEN pc' = "exited" /\ exitStatus' = 1
       ELSE pc' = "navigation" /\ exitStatus' = exitStatus
    /\ UNCHANGED <<input, outputFile, payload, runtime, lastEvent>>

\* src/build.py:98-128
ProcessNavigation ==
    /\ pc = "navigation"
    /\ contentViewData' = ContentViewData(Cfg.main_navigation, input.files, <<>>)
    /\ pc' = "blogs"
    /\ UNCHANGED <<input, exitStatus, outputFile, mainViewData, blogsListData,
                   blogContentData, socialsViewData, themes, defaultTheme, views,
                   runtime, lastEvent>>

\* src/build.py:131-155
ProcessBlogs ==
    /\ pc = "blogs"
    /\ blogsListData' = BlogsListData(Cfg.main_navigation, input.blog_dir, input.posts)
    /\ blogContentData' =
           BlogContentData(Cfg.main_navigation, input.blog_dir, input.posts)
    /\ pc' = "socials"
    /\ UNCHANGED <<input, exitStatus, outputFile, mainViewData, contentViewData,
                   socialsViewData, themes, defaultTheme, views, runtime, lastEvent>>

\* src/build.py:158-170
ProcessSocials ==
    /\ pc = "socials"
    /\ socialsViewData' =
           SocialsViewData(Cfg.main_navigation, Cfg.socials_heading, Cfg.socials_links)
    /\ pc' = "data"
    /\ UNCHANGED <<input, exitStatus, outputFile, mainViewData, blogsListData,
                   blogContentData, contentViewData, themes, defaultTheme, views,
                   runtime, lastEvent>>

\* src/build.py:191: json.dumps raises on a value that is no JSON value
JsonSerializable(blogs_list_data) ==
    \A i \in 1..Len(blogs_list_data) : blogs_list_data[i].title \notin YamlDates

\* src/build.py:174-196: js_data, and its serialization, which ends in
\* sys.exit(1) when json.dumps raises
PrepareData ==
    /\ pc = "data"
    /\ mainViewData' = Cfg.main_navigation
    /\ themes' = Cfg.themes
    /\ defaultTheme' = Cfg.default_theme
    /\ IF JsonSerializable(blogsListData)
       THEN pc' = "assemble" /\ exitStatus' = exitStatus
       ELSE pc' = "exited" /\ exitStatus' = 1
    /\ UNCHANGED <<input, outputFile, blogsListData, blogContentData,
                   contentViewData, socialsViewData, views, runtime, lastEvent>>

\* src/build.py:691-755
Assemble ==
    /\ pc = "assemble"
    /\ views' = AllViewIds(Cfg.main_navigation)
    /\ pc' = "write"
    /\ UNCHANGED <<input, exitStatus, outputFile, mainViewData, blogsListData,
                   blogContentData, contentViewData, socialsViewData, themes,
                   defaultTheme, runtime, lastEvent>>

\* src/build.py:757-767: the file is written, or open() fails and leaves it
\* as it was, or write() fails after open() truncated it
WriteOutput ==
    /\ pc = "write"
    /\ IF input.output = "ok"
       THEN pc' = "done" /\ exitStatus' = exitStatus /\ outputFile' = "written"
       ELSE /\ pc' = "exited"
            /\ exitStatus' = 1
            /\ outputFile' = IF input.output = "write fails" THEN "partial"
                              ELSE outputFile
    /\ UNCHANGED <<input, payload, runtime, lastEvent>>

NextBuild ==
    \/ LoadConfig
    \/ ProcessNavigation
    \/ ProcessBlogs
    \/ ProcessSocials
    \/ PrepareData
    \/ Assemble
    \/ WriteOutput

(***************************************************************************)
(* Inputs of the build process.                                            *)
(***************************************************************************)
\* longest main_navigation drawn for the build
MaxNav == 2

\* the kinds of navigation entry: a page, a second entry for the same view, a
\* page whose file is no .md file, an entry without targetView, an entry
\* without filename, the blog and the socials
NavKinds ==
    {Nav("about-view", "about.md"), Nav("about-view", "x.md"),
     Nav("about-view", "about.txt"), Nav(NoValue, "about.md"),
     Nav("about-view", NoValue), Nav("blogs-list-view", "x.md"),
     Nav("socials-view", "x.md")}
BuildNavLists == UNION {[1..n -> NavKinds] : n \in 0..MaxNav}

\* most lines of the Markdown texts drawn for about.md in the build
MaxRawLines == 2
\* about.md in the build: its lines are paragraphs, blank lines and lines
\* markdown.markdown raises on
BuildDocuments ==
    UNION {[1..n -> MarkdownLines \cup {RaisingLine}] : n \in 0..MaxRawLines}
BuildContentFiles ==
    {[status |-> "missing"], [status |-> "unreadable"]}
    \cup {[status |-> "ok", metadata |-> <<>>, content |-> d] : d \in BuildDocuments}

\* most entries of socials_links drawn for the build
MaxBuildLinks == 2
\* a link with every key, one whose name and display text need escaping,
\* one with no key but url, one with no key at all
LinkKinds ==
    {GitHubLink,
     [name |-> "Q&A", url |-> "https://qa.example", display_text |-> "Q&A"],
     [url |-> "https://github.com/u"],
     <<>>}
BuildSocialLinks == UNION {[1..n -> LinkKinds] : n \in 0..MaxBuildLinks}

\* the files of content/: about.md varies, x.md is a page of its own
OtherPage == [status |-> "ok", metadata |-> <<>>, content |-> <<"y">>]
BuildFiles(about) ==
    [f \in {"about.md", "x.md", "about.txt"} |-> IF f = "about.md" THEN about ELSE OtherPage]

\* the files content/blogs can hold, and the example of dated file names
BlogFileNames == {".md", "a.md", "b.md", "a-b.md", "b.txt"}
DatedFileNames == {"2024-01-01-a.md", "2023-12-31-b.md", "2024-06-01-c.md"}
BlogListings == (SUBSET BlogFileNames) \cup {DatedFileNames}

\* a post: one frontmatter.load raises on, one without front matter, one with
\* an empty date and a body of two paragraphs, one whose body
\* markdown.markdown raises on, one with a title and an unquoted date, one
\* whose title is an unquoted date
PostKinds ==
    {[status |-> "unreadable"],
     [status |-> "ok", metadata |-> <<>>, content |-> <<>>],
     [status |-> "ok", metadata |-> [date |-> ""], content |-> <<"x", " ", "y">>],
     [status |-> "ok", metadata |-> [title |-> "B", date |-> "2024-01-01"],
      content |-> <<RaisingLine, " ">>],
     [status |-> "ok", metadata |-> [title |-> "A", date |-> "date(2024-06-01)"],
      content |-> FullBody],
     [status |-> "ok", metadata |-> [title |-> "date(2024-06-01)"], content |-> <<>>]}
PostsOf(listing) == [{f \in listing : endswith(f, ".md")} -> PostKinds]

BuildConfig(nav, links) ==
    [main_navigation |-> nav, socials_heading |-> "Socials & Links",
     socials_links |-> links, themes |-> FixedThemes, default_theme |-> "theme-dracula"]

\* what config.get returns for every key of an empty mapping
EmptyConfig ==
    [main_navigation |-> <<>>, socials_heading |-> "Socials & Links",
     socials_links |-> <<>>, themes |-> <<>>, default_theme |-> "theme-dracula"]

BuildInput(status, config, about, blog_dir, posts, output) ==
    [config_file |-> [status |-> status, config |-> config],
     files |-> BuildFiles(about), blog_dir |-> blog_dir, posts |-> posts,
     output |-> output]

NoBlogDir == [exists |-> FALSE, listing |-> {}]

\* the inputs drawn: every navigation with every about.md; every failure of
\* the configuration file; every failure of the output; the socials with
\* every list of links; the blog with every listing and every kind of post
BuildInputs ==
    {BuildInput("ok", BuildConfig(nav, <<>>), about, NoBlogDir, <<>>, "ok") :
         nav \in BuildNavLists, about \in BuildContentFiles}
    \cup {BuildInput(status, EmptyConfig, [status |-> "missing"], NoBlogDir, <<>>, "ok") :
             status \in ConfigStatuses \ {"ok"}}
    \cup {BuildInput("ok", BuildConfig(FixedNav, <<>>), [status |-> "missing"],
                     NoBlogDir, <<>>, output) :
             output \in {"open fails", "write fails"}}
    \cup {BuildInput("ok", BuildConfig(nav, links), [status |-> "missing"],
                     NoBlogDir, <<>>, "ok") :
             nav \in {FixedNav, <<Nav("socials-view", "x.md")>>,
                      <<Nav("socials-view", "x.md"), Nav("socials-view", NoValue)>>},
             links \in BuildSocialLinks}
    \cup UNION {{BuildInput("ok", BuildConfig(<<Nav("blogs-list-view", "x.md")>>, <<>>),
                            [status |-> "missing"],
                            [exists |-> TRUE, listing |-> listing], posts, "ok") :
                    posts \in PostsOf(listing)} : listing \in BlogListings}

\* build_site starts; the output file is absent or left by an earlier build
InitBuild ==
    /\ input \in BuildInputs
    /\ pc = "config"
    /\ exitStatus = 0
    /\ outputFile \in {"absent", "old"}
    /\ mainViewData = <<>> /\ blogsListData = <<>> /\ blogContentData = <<>>
    /\ contentViewData = <<>> /\ socialsViewData = <<>>
    /\ themes = <<>> /\ defaultTheme = "" /\ views = {}
    /\ currentViewId = "main-view" /\ previousViewId = NoValue
    /\ isCommandMode = FALSE /\ commandInput = <<>>
    /\ isThemePopupActive = FALSE /\ themePopupItems = <<>>
    /\ currentThemePopupIndex = 0 /\ appliedThemeClassName = ""
    /\ viewStates = <<>> /\ activeViews = {} /\ bodyClassName = ""
    /\ windowClosed = FALSE
    /\ lastEvent = [type |-> "none", key |-> "", mode |-> "Normal",
                    switched |-> FALSE, threw |-> FALSE, redirected |-> FALSE,
                    populated |-> FALSE, cursorBefore |-> 0, downs |-> 0,
                    escapes |-> 0]

SpecBuild == InitBuild /\ [][NextBuild]_vars

(***************************************************************************)
(* Properties of the runtime.                                              *)
(***************************************************************************)
\* the view state of the view on screen
CurrentState == viewStates[currentViewId]

\* the step is a key the handler acted on, pressed in the given mode
KeyStep(key, mode) ==
    /\ lastEvent'.type = "key"
    /\ lastEvent'.key = key
    /\ lastEvent'.mode = mode

\* C1: after initialize() and after every input event, exactly one view
\* container carries class "active", and it is the container whose id is
\* currentViewId; also after a switch to a missing container and after the
\* redirect that follows an invalid blogId.
ExactlyOneViewActive == activeViews = {currentViewId}

\* an invalid blogId has redirected back to the main view, and the last key
\* was an Enter on an entry whose container is missing
ExactlyOneViewActive_Witness ==
    /\ ExactlyOneViewActive
    /\ currentViewId = "main-view"
    /\ previousViewId = "blog-content-view"
    /\ lastEvent.type = "key" /\ lastEvent.key = "Enter" /\ ~lastEvent.switched
    /\ CurrentState.lines[CurrentState.currentIndex + 1].targetView \notin views

\* C2: in every reachable state and for every view, currentIndex is within
\* [0, len(lines) - 1] when the view has lines, and is 0 when it has none.
CursorInRange ==
    \A v \in views :
        IF Len(viewStates[v].lines) > 0
        THEN viewStates[v].currentIndex \in 0..(Len(viewStates[v].lines) - 1)
        ELSE viewStates[v].currentIndex = 0

\* the blog-content view was just populated with a post that has no line at
\* the index its cursor was on
CursorInRange_Witness ==
    /\ CursorInRange
    /\ lastEvent.switched
    /\ currentViewId = "blog-content-view"
    /\ lastEvent.cursorBefore >= Len(CurrentState.lines)
    /\ Len(CurrentState.lines) > 0

\* C3: in Normal mode on a view with n >= 1 lines, a down key moves the cursor
\* to min(n - 1, cursor + 1) and an up key to max(0, cursor - 1); there is no
\* wraparound: n + 5 consecutive downs from index 0 end on index n - 1, and an
\* up on index 0 ends on index 0.
CursorKeysClamp ==
    [][LET n == Len(CurrentState.lines)
           cursor == CurrentState.currentIndex
           cursorAfter == viewStates'[currentViewId].currentIndex
       IN  n >= 1 =>
             /\ KeyStep("j", "Normal") =>
                   /\ currentViewId' = currentViewId
                   /\ cursorAfter = IF cursor + 1 < n THEN cursor + 1 ELSE n - 1
                   /\ lastEvent'.downs = n + DownsBeyond => cursorAfter = n - 1
             /\ KeyStep("k", "Normal") =>
                   /\ currentViewId' = currentViewId
                   /\ cursorAfter = IF cursor - 1 > 0 THEN cursor - 1 ELSE 0
                   /\ cursor = 0 => cursorAfter = 0]_vars

\* n + 5 downs from the top of a view with several lines have been pressed
CursorKeysClamp_Witness ==
    /\ Len(CurrentState.lines) >= 2
    /\ lastEvent.downs = Len(CurrentState.lines) + DownsBeyond
    /\ CurrentState.currentIndex = Len(CurrentState.lines) - 1

\* the theme entries that can be chosen, and the smallest of a set of them
EnabledThemes == {i \in 1..Len(themes) : ~themes[i].disabled}
Least(set) == CHOOSE i \in set : \A j \in set : i <= j

\* C4: when the picker is opened, entries are previewed and the picker is then
\* cancelled with Escape, the theme on the page and the committed theme
\* appliedThemeClassName are both the theme committed before the picker
\* opened.  A step that leaves the picker open leaves the committed theme as
\* it was, and Escape closes the picker on that theme.
CancelRestoresCommitted ==
    [][/\ isThemePopupActive' => appliedThemeClassName' = appliedThemeClassName
       /\ KeyStep("Escape", "ThemePicker") =>
             /\ ~isThemePopupActive'
             /\ appliedThemeClassName' = appliedThemeClassName
             /\ bodyClassName' = appliedThemeClassName]_vars

\* the picker was cancelled on the third entry of a list of three themes, the
\* first of them committed
CancelRestoresCommitted_Witness ==
    /\ lastEvent.type = "key" /\ lastEvent.key = "Escape"
    /\ lastEvent.mode = "ThemePicker"
    /\ ~isThemePopupActive
    /\ EnabledThemes = 1..3
    /\ currentThemePopupIndex = 2
    /\ appliedThemeClassName = themes[1].className
    /\ bodyClassName = appliedThemeClassName

\* C5: Enter in the picker commits the highlighted entry (appliedThemeClassName
\* becomes its className) and closes the picker, leaving Normal mode, however
\* the highlight was reached.  Stated for the entry that carries class
\* "active"; the code commits entry currentThemePopupIndex, which the mouse
\* leaving the list does not move back.
EnterCommitsHighlighted ==
    [][KeyStep("Enter", "ThemePicker") =>
         \A i \in 1..Len(themePopupItems) :
             themePopupItems[i].active =>
                 /\ ~isThemePopupActive' /\ ~isCommandMode'
                 /\ appliedThemeClassName' = themes[i].className]_vars

\* C6: while the picker is open, entry currentThemePopupIndex is never a
\* disabled entry, for every theme list.
HighlightNeverDisabled == isThemePopupActive => ~Disabled(currentThemePopupIndex)

\* the step submits the command line, and the command is themes
SubmitsThemes == KeyStep("Enter", "CommandEntry") /\ Trim(commandInput) = CmdThemes

\* C7 as the spec states it: submitting themes opens the picker with the
\* committed theme as the highlighted entry, for every theme list and every
\* committed theme.
ThemesHighlightsCommitted ==
    [][SubmitsThemes =>
         /\ isThemePopupActive'
         /\ currentThemePopupIndex' + 1 \in EnabledThemes
         /\ themes[currentThemePopupIndex' + 1].className = appliedThemeClassName]_vars

\* C7: submitting themes with a theme list that is not empty opens the picker
\* on the first enabled entry whose className is the committed theme, or else
\* on the first enabled entry, and marks that entry alone; when every entry is
\* disabled the picker opens on entry 0 with no entry marked.  With an empty
\* list the picker does not open.  The committed theme stays as it is.
ThemesHighlightsCommittedOrFirst ==
    [][SubmitsThemes =>
         LET committed == {i \in EnabledThemes :
                             themes[i].className = appliedThemeClassName}
             start == IF committed # {} THEN Least(committed)
                      ELSE IF EnabledThemes # {} THEN Least(EnabledThemes)
                      ELSE 1
         IN  /\ ~isCommandMode'
             /\ appliedThemeClassName' = appliedThemeClassName
             /\ isThemePopupActive' <=> themes # <<>>
             /\ themes # <<>> =>
                   /\ currentThemePopupIndex' + 1 = start
                   /\ \A i \in 1..Len(themes) :
                         themePopupItems'[i].active <=> (i = start /\ i \in EnabledThemes)]_vars

\* the picker opened on the second entry: the committed theme is the
\* className of the first entry, which is disabled
ThemesHighlightsCommittedOrFirst_Witness ==
    /\ lastEvent.type = "key" /\ lastEvent.key = "Enter"
    /\ lastEvent.mode = "CommandEntry"
    /\ isThemePopupActive
    /\ Len(themes) >= 2
    /\ themes[1].disabled /\ themes[1].className = appliedThemeClassName
    /\ currentThemePopupIndex = 1
    /\ themePopupItems[2].active

\* C8 as the spec states it: Enter in command mode always leaves the runtime
\* in Normal mode, whatever the buffer holds.
EnterReturnsToNormal ==
    [][KeyStep("Enter", "CommandEntry") =>
         ~isCommandMode' /\ ~isThemePopupActive']_vars

\* C8: Enter in command mode always ends command mode and empties the buffer;
\* the runtime is then in Normal mode, except that the command themes, with a
\* theme list that is not empty, leaves it in the theme picker.
EnterLeavesCommandMode ==
    [][KeyStep("Enter", "CommandEntry") =>
         /\ ~isCommandMode'
         /\ commandInput' = <<>>
         /\ isThemePopupActive' <=> (Trim(commandInput) = CmdThemes /\ themes # <<>>)]_vars

\* the command line was submitted and the picker is open on a list with a
\* disabled entry
EnterLeavesCommandMode_Witness ==
    /\ lastEvent.type = "key" /\ lastEvent.key = "Enter"
    /\ lastEvent.mode = "CommandEntry"
    /\ ~isCommandMode /\ commandInput = <<>>
    /\ isThemePopupActive
    /\ EnabledThemes # {} /\ EnabledThemes # 1..Len(themes)

\* C9: in Normal mode, Escape in the blog-content view shows blogs-list-view,
\* in any other view but main-view it shows main-view, and in main-view it
\* changes nothing (view, cursor and previousViewId stay).  Where back goes
\* depends on currentViewId alone, never on previousViewId.
BackGoesByCurrentView ==
    [][KeyStep("Escape", "Normal") =>
         IF currentViewId = "blog-content-view"
         THEN currentViewId' = "blogs-list-view" /\ activeViews' = {"blogs-list-view"}
         ELSE IF currentViewId # "main-view"
         THEN currentViewId' = "main-view" /\ activeViews' = {"main-view"}
         ELSE /\ currentViewId' = currentViewId
              /\ activeViews' = activeViews
              /\ previousViewId' = previousViewId
              /\ viewStates' = viewStates]_vars

\* Escape went from the blog list to main-view after a post had been read:
\* the view remembered as previous was not main-view
BackGoesByCurrentView_Witness ==
    /\ lastEvent.type = "key" /\ lastEvent.key = "Escape"
    /\ lastEvent.mode = "Normal" /\ lastEvent.switched
    /\ currentViewId = "main-view"
    /\ previousViewId = "blogs-list-view"
    /\ viewStates["blog-content-view"].blogId # NoValue

\* C10: every completed view switch (activate, back, or the redirect that
\* follows an invalid blogId) leaves the cursor of the view it ends on at 0.
SwitchLeavesCursorAtTop == lastEvent.switched => CurrentState.currentIndex = 0

\* the line under the cursor of a list view, which Enter activates
OnListLine ==
    /\ currentViewId \in ListViews
    /\ CurrentState.currentIndex < Len(CurrentState.lines)
CursorLine == CurrentState.lines[CurrentState.currentIndex + 1]

\* src/build.py:564-592: switchView finds a data source for the view
HasDataSource(viewId) ==
    \/ viewId \in {"main-view", "blogs-list-view", "socials-view", "blog-content-view"}
    \/ viewId \in DOMAIN contentViewData

\* C11: when a view identifier with no container, or with a container and no
\* data source, is requested, navigation falls back to the root view: after
\* the request the active view is main-view.
UnknownViewFallsBackToRoot ==
    [][(/\ KeyStep("Enter", "Normal")
        /\ OnListLine
        /\ CursorLine.targetView # ""
        /\ CursorLine.targetView \notin views \/ ~HasDataSource(CursorLine.targetView))
       => currentViewId' = "main-view" /\ activeViews' = {"main-view"}]_vars

\* C12: when blog-content-view is requested with a blog id that is missing or
\* has no entry in blogContentData, the event ends with the view that was
\* active before as the active, visible view, and blog-content-view is never
\* the visible view without a post of blogContentData in it.
InvalidBlogIdGoesBack ==
    /\ [](currentViewId = "blog-content-view" =>
             /\ BlogFound(CurrentState.blogId)
             /\ Len(CurrentState.lines) = Len(blogContentData[CurrentState.blogId])
             /\ Len(CurrentState.lines) > 0)
    /\ [][LET requested == /\ KeyStep("Enter", "Normal")
                            /\ OnListLine
                            /\ CursorLine.targetView = "blog-content-view"
                            /\ ~BlogFound(CursorLine.blogId)
               wentBack == /\ currentViewId' = currentViewId
                           /\ previousViewId' = "blog-content-view"
                           /\ activeViews' = {currentViewId}
           IN  /\ requested => lastEvent'.redirected
               /\ lastEvent'.redirected => wentBack]_vars

\* the blog list is on screen again after an entry with an empty id was
\* activated in it
InvalidBlogIdGoesBack_Witness ==
    /\ lastEvent.redirected
    /\ currentViewId = "blogs-list-view"
    /\ activeViews = {"blogs-list-view"}
    /\ \E i \in 1..Len(CurrentState.lines) : ~BlogFound(CurrentState.lines[i].blogId)

\* C13: after any sequence of inputs the view on screen has at least one
\* rendered line, also when a content file is missing or fails to load, when
\* its filename is no .md file, and when the blog directory has no posts.
\* Stated for a main_navigation that is not empty.
NeverBlankScreen == mainViewData # <<>> => Len(CurrentState.lines) >= 1

(***************************************************************************)
(* Properties of the build.                                                *)
(***************************************************************************)
\* the configuration was read
ConfigLoaded == input.config_file.status = "ok"

\* the phases after the loop over main_navigation, and after the blog
PastNavigation == pc \in {"blogs", "socials", "data", "assemble", "write", "done"}
PastBlogs == pc \in {"socials", "data", "assemble", "write", "done"}

\* C14: when the configuration file is missing, unparseable or empty,
\* build_site ends with a non-zero exit status before it processes any
\* content, and the output file is neither written nor changed.
ConfigFailureIsFatal ==
    /\ [](~ConfigLoaded =>
             /\ pc \in {"config", "exited"}
             /\ pc = "exited" => exitStatus # 0
             /\ outputFile \in {"absent", "old"}
             /\ contentViewData = <<>> /\ blogsListData = <<>>
             /\ blogContentData = <<>> /\ socialsViewData = <<>>)
    /\ [][(pc = "config" /\ ~ConfigLoaded) =>
             pc' = "exited" /\ outputFile' = outputFile]_vars

\* the build ended on an empty configuration file and left the output of an
\* earlier build as it was
ConfigFailureIsFatal_Witness ==
    /\ input.config_file.status = "empty"
    /\ pc = "exited" /\ exitStatus = 1
    /\ outputFile = "old"

\* C15: when the configuration loaded, the build always runs to its end and
\* writes the output file, whatever fails in an item of the content.  Stated
\* for an output file that can be written.
BuildAlwaysCompletes ==
    (ConfigLoaded /\ input.output = "ok" /\ pc \in {"done", "exited"})
        => (pc = "done" /\ exitStatus = 0 /\ outputFile = "written")

\* C16: every entry of mainViewData has a targetView: configured entries
\* without targetView are not passed to the runtime.
NavigationHasTargets ==
    \A i \in 1..Len(mainViewData) : mainViewData[i].targetView \notin {NoValue, ""}

\* a navigation entry has its targetView and its filename
Complete(item) == item.targetView \notin {NoValue, ""} /\ item.filename \notin {NoValue, ""}

\* C17: a navigation entry without targetView or without filename contributes
\* no key to contentViewData, and the build goes on: the loop never ends the
\* build, and the entries that are pages all have their key.
IncompleteEntriesAreSkipped ==
    /\ [](PastNavigation =>
             LET nav == Cfg.main_navigation
                 pages == {i \in 1..Len(nav) :
                             /\ Complete(nav[i])
                             /\ nav[i].targetView \notin SPECIAL_VIEWS
                             /\ endswith(nav[i].filename, ".md")}
             IN  DOMAIN contentViewData = {nav[i].targetView : i \in pages})
    /\ [](pc = "exited" =>
             \/ ~ConfigLoaded
             \/ ~JsonSerializable(blogsListData)
             \/ input.output # "ok")
    /\ [][pc = "navigation" => pc' = "blogs" /\ exitStatus' = 0]_vars

\* a build wrote its output for a navigation that holds an entry without
\* targetView, an entry without filename or both, and a page
IncompleteEntriesAreSkipped_Witness ==
    /\ pc = "done" /\ outputFile = "written"
    /\ \E i \in 1..Len(mainViewData) : ~Complete(mainViewData[i])
    /\ DOMAIN contentViewData = {"about-view"}

\* C18: every key of contentViewData is the targetView of exactly one
\* navigation entry, for every main_navigation, and no key is a special view.
KeysMatchOneEntry ==
    PastNavigation =>
        \A key \in DOMAIN contentViewData :
            /\ key \notin SPECIAL_VIEWS
            /\ Cardinality({i \in 1..Len(Cfg.main_navigation) :
                               Cfg.main_navigation[i].targetView = key}) = 1

\* the posts of the blog directory that load, when the blog is processed
LoadedPosts ==
    IF HasTarget(Cfg.main_navigation, "blogs-list-view") /\ input.blog_dir.exists
    THEN {f \in input.blog_dir.listing :
            endswith(f, ".md") /\ input.posts[f].status = "ok"}
    ELSE {}
\* the file name of a post of blogsListData, as character codes
FileNameOf(entry) == Codes(entry.id) \o <<46, 109, 100>>

\* C19: the ids of blogsListData are the .md file names of the blog directory
\* in descending lexicographic order with the extension stripped; the file
\* names 2024-01-01-a.md, 2023-12-31-b.md, 2024-06-01-c.md give
\* [2024-06-01-c, 2024-01-01-a, 2023-12-31-b]; a post that fails is left out
\* and the others keep their order.
BlogIndexIsDescending ==
    PastBlogs =>
        /\ Len(blogsListData) = Cardinality(LoadedPosts)
        /\ \A f \in LoadedPosts :
              \E i \in 1..Len(blogsListData) : FileNameOf(blogsListData[i]) = Codes(f)
        /\ \A i, j \in 1..Len(blogsListData) :
              i < j => LexLess(FileNameOf(blogsListData[j]), FileNameOf(blogsListData[i]))
        /\ LoadedPosts = DatedFileNames =>
              [i \in 1..3 |-> blogsListData[i].id]
                  = <<"2024-06-01-c", "2024-01-01-a", "2023-12-31-b">>

\* the three dated posts are in the index
BlogIndexIsDescending_Witness ==
    /\ PastBlogs
    /\ LoadedPosts = DatedFileNames
    /\ Len(blogsListData) = 3
    /\ blogsListData[1].id = "2024-06-01-c"

\* C20: a post that fails is skipped as a whole and the posts after it are
\* still processed: the post is in neither blogsListData nor blogContentData,
\* every post that loads is in both, and the ids of blogsListData are the
\* keys of blogContentData.
FailedPostIsSkipped ==
    /\ [](PastBlogs =>
             /\ {blogsListData[i].id : i \in 1..Len(blogsListData)}
                  = DOMAIN blogContentData
             /\ {FileNameOf(blogsListData[i]) : i \in 1..Len(blogsListData)}
                  = {Codes(f) : f \in LoadedPosts})
    /\ [][pc = "blogs" => pc' = "socials" /\ exitStatus' = 0]_vars

\* b.md, the first post processed, failed to load, and a.md after it is in
\* the index and in the map
FailedPostIsSkipped_Witness ==
    /\ PastBlogs
    /\ {"a.md", "b.md"} \subseteq input.blog_dir.listing
    /\ input.posts["b.md"].status = "unreadable"
    /\ "a" \in DOMAIN blogContentData
    /\ "b" \notin DOMAIN blogContentData
    /\ \E i \in 1..Len(blogsListData) : blogsListData[i].id = "a"

\* the phases after the socials
PastSocials == pc \in {"data", "assemble", "write", "done"}

\* the entries of main_navigation that are content pages (src/build.py:102,
\* 107)
PageEntries ==
    {i \in 1..Len(Cfg.main_navigation) :
        /\ Complete(Cfg.main_navigation[i])
        /\ Cfg.main_navigation[i].targetView \notin SPECIAL_VIEWS
        /\ endswith(Cfg.main_navigation[i].filename, ".md")}

\* the lines of a sequence that are info lines
InfoLines(lines) ==
    {j \in 1..Len(lines) : "type" \in DOMAIN lines[j] /\ lines[j].type = "info"}

\* C21: for a navigation entry that is a content page whose .md file exists
\* and loads, contentViewData[targetView] is the rendered non-blank lines of
\* that file followed by one info line, the only one; for a file that is
\* missing or does not load it is the empty sequence.
ContentPagesAreRendered ==
    PastNavigation =>
        \A i \in PageEntries :
            LET item == Cfg.main_navigation[i]
                file == input.files[item.filename]
                lines == contentViewData[item.targetView]
            IN  IF file.status = "ok"
                THEN /\ lines = Append(markdown_to_lines(file.content),
                                       create_info_line(BackHint))
                     /\ InfoLines(lines) = {Len(lines)}
                ELSE lines = <<>>

\* C22: the social links are processed only when an entry of main_navigation
\* names socials-view; socialsViewData is then the heading, a blank line, one
\* list-item line per configured link in the order of the configuration, and
\* the info line; otherwise it is empty, whatever links are configured.
SocialsOnlyWhenRouted ==
    PastSocials =>
        LET links == Cfg.socials_links
            n == Len(links)
        IN  IF \E i \in 1..Len(Cfg.main_navigation) :
                   Cfg.main_navigation[i].targetView = "socials-view"
            THEN /\ Len(socialsViewData) = n + 3
                 /\ socialsViewData[1] = [text |-> Cfg.socials_heading, type |-> "heading"]
                 /\ socialsViewData[2] = [text |-> ""]
                 /\ \A i \in 1..n :
                       /\ socialsViewData[2 + i] = SocialLine(links[i])
                       /\ socialsViewData[2 + i].type = "list-item"
                 /\ socialsViewData[n + 3] = create_info_line(BackHint)
            ELSE socialsViewData = <<>>

\* two different links are in socialsViewData, in their order, and the name
\* of the second is escaped
SocialsOnlyWhenRouted_Witness ==
    /\ pc = "done"
    /\ Len(socialsViewData) = 5
    /\ socialsViewData[3].text.name = "GitHub"
    /\ socialsViewData[4].text.name = "Q&amp;A"

\* the file that wrote the lines of a content view: that of the last page
\* entry naming the view
PageFile(key) ==
    LET entries == {i \in PageEntries : Cfg.main_navigation[i].targetView = key}
        last == CHOOSE i \in entries : \A j \in entries : j <= i
    IN  input.files[Cfg.main_navigation[last].filename]

\* C23: markdown_to_lines never gives a line whose text is blank; when the
\* rendering succeeds every line is flagged isHtml, and when markdown.markdown
\* raises the result is the non-blank lines of the raw text, none flagged
\* isHtml.  Stated on the lines it gives for the content pages.
MarkdownLinesNeverBlank ==
    PastNavigation =>
        \A key \in DOMAIN contentViewData :
            PageFile(key).status = "ok" =>
                LET md_content == PageFile(key).content
                    lines == contentViewData[key]
                    body == SubSeq(lines, 1, Len(lines) - 1)
                    raw == {k \in 1..Len(md_content) : md_content[k] \notin {"", " "}}
                IN  /\ \A j \in 1..Len(body) : body[j].text \notin {"", " "}
                    /\ IF \E k \in 1..Len(md_content) : md_content[k] = RaisingLine
                       THEN /\ Len(body) = Cardinality(raw)
                            /\ \A j \in 1..Len(body) :
                                  /\ ~body[j].isHtml
                                  /\ \E k \in raw :
                                        /\ body[j].text = md_content[k]
                                        /\ Cardinality({m \in raw : m < k}) = j - 1
                       ELSE \A j \in 1..Len(body) : body[j].isHtml

\* about.md is a line markdown.markdown raises on and a blank line: its view
\* holds the first line as text, and the info line
MarkdownLinesNeverBlank_Witness ==
    /\ PastNavigation
    /\ "about-view" \in DOMAIN contentViewData
    /\ PageFile("about-view").status = "ok"
    /\ PageFile("about-view").content = <<RaisingLine, " ">>
    /\ Len(contentViewData["about-view"]) = 2
    /\ ~contentViewData["about-view"][1].isHtml

Visited(viewId) == viewId = "main-view" \/ viewStates[viewId].data # <<"init">>

\* C24 as the spec states it: the lines of a view are built on its first
\* visit only; every later switch to the view reuses them and does not call
\* populateView, for every view.
PopulatedOnce ==
    [][(lastEvent'.switched /\ Visited(currentViewId')) => ~lastEvent'.populated]_vars

\* C24: a switch to a view calls populateView exactly when the view has no
\* lines (its first visit, or a source that is empty) or its source is not
\* the one the lines were built from (the blog-content view opened for
\* another post, a view without data source); otherwise the lines built
\* before are reused as they are.
PopulatedWhenSourceChanges ==
    [][lastEvent'.switched =>
         LET before == viewStates[currentViewId']
             after == viewStates'[currentViewId']
         IN  /\ lastEvent'.populated <=>
                   \/ Len(before.lines) = 0
                   \/ before.data # after.data
                   \/ after.data = <<"fresh">>
             /\ ~lastEvent'.populated => after.lines = before.lines]_vars

\* a view with lines was shown again and its lines were reused
PopulatedWhenSourceChanges_Witness ==
    /\ lastEvent.switched /\ ~lastEvent.populated
    /\ currentViewId = "blogs-list-view"
    /\ previousViewId = "blog-content-view"
    /\ Len(CurrentState.lines) > 0

\* C25: in command mode the buffer is a stack of characters: ":" in Normal
\* mode enters command mode with an empty buffer, a key of one character
\* appends that character, Backspace removes the last character (an empty
\* buffer stays empty, and command mode stays), and Escape empties the buffer
\* and returns to Normal mode without running a command.
CommandBufferIsStack ==
    [][/\ KeyStep(":", "Normal") =>
             isCommandMode' /\ ~isThemePopupActive' /\ commandInput' = <<>>
       /\ \A ch \in CharKeys :
             KeyStep(ch, "CommandEntry") =>
                 /\ isCommandMode' /\ ~isThemePopupActive'
                 /\ Len(commandInput') = Len(commandInput) + 1
                 /\ commandInput'[Len(commandInput')] = ch
                 /\ \A i \in 1..Len(commandInput) : commandInput'[i] = commandInput[i]
       /\ KeyStep("Backspace", "CommandEntry") =>
             /\ isCommandMode' /\ ~isThemePopupActive'
             /\ Len(commandInput') = (IF commandInput = <<>> THEN 0 ELSE Len(commandInput) - 1)
             /\ \A i \in 1..Len(commandInput') : commandInput'[i] = commandInput[i]
       /\ KeyStep("Escape", "CommandEntry") =>
             /\ ~isCommandMode' /\ ~isThemePopupActive' /\ commandInput' = <<>>
             /\ windowClosed' = windowClosed
             /\ UNCHANGED <<themePopupItems, currentThemePopupIndex,
                            appliedThemeClassName, bodyClassName>>]_vars

\* Backspace took the last of three typed characters
CommandBufferIsStack_Witness ==
    /\ lastEvent.type = "key" /\ lastEvent.key = "Backspace"
    /\ lastEvent.mode = "CommandEntry"
    /\ isCommandMode
    /\ commandInput = <<"t", "h">>

\* the entries that carry class "active" in the picker
Highlighted == {i \in 1..Len(themePopupItems) : themePopupItems[i].active}
Greatest(set) == CHOOSE i \in set : \A j \in set : j <= i

\* C26: in the picker a down or up key moves the highlight to the nearest
\* entry in that direction that is not disabled, and applies its theme to the
\* page without committing it; when there is no such entry the highlight,
\* the theme on the page and the committed theme stay.  Stated for the
\* entry that carries class "active".
PickerMovesToNearestEnabled ==
    [][\A h \in Highlighted :
         LET below == {i \in EnabledThemes : i > h}
             above == {i \in EnabledThemes : i < h}
             MovesTo(set, i) ==
                 IF set # {}
                 THEN /\ Highlighted' = {i}
                      /\ bodyClassName' = themes[i].className
                      /\ appliedThemeClassName' = appliedThemeClassName
                 ELSE UNCHANGED <<themePopupItems, bodyClassName, appliedThemeClassName>>
         IN  /\ KeyStep("j", "ThemePicker") =>
                   MovesTo(below, IF below # {} THEN Least(below) ELSE h)
             /\ KeyStep("k", "ThemePicker") =>
                   MovesTo(above, IF above # {} THEN Greatest(above) ELSE h)]_vars

\* C27: in Normal mode, Enter on the entry under the cursor of a list view,
\* or a click on an entry, makes the target of the entry the view on screen
\* and the view left becomes previousViewId; Enter in a view that is no list
\* view, and the horizontal keys in every view, change nothing.
ActivationShowsTarget ==
    [][/\ (KeyStep("Enter", "Normal") /\ OnListLine /\ CursorLine.targetView # "") =>
             /\ currentViewId' = CursorLine.targetView
             /\ activeViews' = {CursorLine.targetView}
             /\ previousViewId' = currentViewId
       /\ (lastEvent'.type = "click" /\ currentViewId \in ListViews) =>
             LET clicked == CurrentState.lines[viewStates'[currentViewId].currentIndex + 1]
             IN  clicked.targetView # "" =>
                     /\ currentViewId' = clicked.targetView
                     /\ activeViews' = {clicked.targetView}
                     /\ previousViewId' = currentViewId
       /\ (KeyStep("Enter", "Normal") /\ currentViewId \notin ListViews) =>
             UNCHANGED <<currentViewId, previousViewId, activeViews, viewStates,
                         isCommandMode, isThemePopupActive, bodyClassName,
                         appliedThemeClassName>>
       /\ KeyStep("h", "Normal") =>
             UNCHANGED <<currentViewId, previousViewId, activeViews, viewStates,
                         isCommandMode, isThemePopupActive, bodyClassName,
                         appliedThemeClassName>>]_vars

\* C29: while the runtime is in command mode or in the picker, no key, click
\* or mouse-over changes the view on screen, previousViewId, or the cursor or
\* the lines of any view.
ModalEventsLeaveViews ==
    [][(isCommandMode \/ isThemePopupActive) =>
         UNCHANGED <<currentViewId, previousViewId, activeViews, viewStates>>]_vars

\* a key was handled in command mode while a view other than main-view, with
\* its cursor below the first line, was on screen
ModalEventsLeaveViews_Witness ==
    /\ lastEvent.type = "key" /\ lastEvent.mode = "CommandEntry"
    /\ isCommandMode /\ commandInput # <<>>
    /\ currentViewId # "main-view"
    /\ CurrentState.currentIndex > 0

\* C30: after every event the runtime is in one mode: isCommandMode and
\* isThemePopupActive are never both true, also after the command themes is
\* submitted and after ":" is pressed in the picker.
OneModeAtATime == ~(isCommandMode /\ isThemePopupActive)

\* the command themes was submitted and the picker is open
OneModeAtATime_Witness ==
    /\ lastEvent.type = "key" /\ lastEvent.key = "Enter"
    /\ lastEvent.mode = "CommandEntry"
    /\ isThemePopupActive /\ ~isCommandMode

\* C31: whenever the picker is closed, in Normal mode or in command mode,
\* the theme on the page is the committed theme appliedThemeClassName,
\* after every interleaving of previews by key and by mouse, the mouse
\* leaving the list, clicks, Enter and Escape.
ClosedPickerShowsCommitted ==
    ~isThemePopupActive => bodyClassName = appliedThemeClassName

\* C32: from every state, at most three Escapes in a row lead to Normal
\* mode with main-view on screen: the first leaves command mode or the
\* picker, at most two more go from the blog-content view to the blog list
\* and from there to main-view; further Escapes change neither.
EscapesReachRoot ==
    /\ [](/\ lastEvent.escapes >= 1 => ~isCommandMode /\ ~isThemePopupActive
          /\ lastEvent.escapes >= 2 => currentViewId \in {"main-view", "blogs-list-view"}
          /\ lastEvent.escapes >= 3 =>
                currentViewId = "main-view" /\ activeViews = {"main-view"})
    /\ [][(lastEvent.escapes >= 3 /\ lastEvent'.escapes > lastEvent.escapes) =>
             UNCHANGED <<currentViewId, activeViews, isCommandMode,
                         isThemePopupActive>>]_vars

\* three Escapes were needed: the first left command mode or the picker
\* over a blog post, the second went to the blog list, the third to main-view
EscapesReachRoot_Witness ==
    /\ lastEvent.escapes = 3
    /\ lastEvent.switched
    /\ currentViewId = "main-view"
    /\ previousViewId = "blogs-list-view"
    /\ viewStates["blog-content-view"].blogId # NoValue
=============================================================================
